---- MODULE Spec2Model ----
(***************************************************************************)
(* Blob packing planner (src/blob_packing_planner.py): the run of main()   *)
(* from argument parsing to the statement that ends it, with the First-    *)
(* Fit-Decreasing packer first_fit_decreasing_binpack modelled one outer-  *)
(* loop iteration per step.                                                 *)
(*                                                                         *)
(* The files under src/ have lost the leading whitespace of some lines and *)
(* do not compile as they are (IndentationError at line 53 of the planner, *)
(* line 49 of eip4844_blob_cost.py, line 98 of gas_cost_estimator.py).     *)
(* eip4844_blob_cost.py and gas_cost_estimator.py are modelled as programs *)
(* (SpecCli), with every statement at the indentation of the block it      *)
(* stands in: a name that is read before it is bound raises NameError or   *)
(* UnboundLocalError.  The planner does not parse even so: the dictionary  *)
(* of lines 232-268 holds an unparenthesised assignment expression (line   *)
(* 254) and a second "totals" entry inside the list of "bins" (lines       *)
(* 258-263).  It has no run as a program; Spec is a reading of its main()  *)
(* statement by statement, in which the entries of that dictionary are     *)
(* evaluated in their order up to line 261, which reads a name that main() *)
(* binds nowhere.                                                          *)
(*                                                                         *)
(* Conventions.  Payload indices are the 0-based indices of the source;    *)
(* TLA+ sequences are 1-based, so the size of payload i is sizes[i + 1]    *)
(* and bin number b of the source is bins[b + 1].  Python's None is the    *)
(* empty sequence << >> and a present value v is << v >>.  Base fees are   *)
(* whole numbers of Gwei; a tip or a blob base fee is a whole number of    *)
(* Gwei with less than one wei on top, which the conversion to wei cuts    *)
(* off; costs are whole numbers of wei, kept in Gwei (1 Gwei = 10^9 wei).  *)
(***************************************************************************)
EXTENDS Integers, Sequences, FiniteSets, TLC

VARIABLES
    pc,                 \* position of the run in main() / in the packer
    gas_arg,            \* args.gas_used as parse_args returns it
    gas_used,           \* args.gas_used after line 175
    args,               \* the other numeric arguments (eip4844_blob_cost.py)
    src,                \* "sizes" (--sizes), or what --file names: "file", "nofile", "unreadable", "undecodable"
    raw,                \* the tokens of --sizes (split on ",") or the lines of the file
    sizes,              \* the list `sizes`
    total_bytes,        \* total_bytes (line 196)
    base_fee_gwei,      \* base_fee_gwei (line 204)
    blob_base_fee_gwei, \* blob_base_fee_gwei (lines 208-210), << >> when None
    caller,             \* who called the packer: "main" or "direct"
    bin_cap,            \* parameter bin_cap of the packer
    order,              \* local `order` of the packer
    k,                  \* position of the outer loop in `order` (1-based)
    bins,               \* local `bins` of the packer, then `bins` of main
    remaining,          \* local `remaining` of the packer
    cost,               \* << >> or << the locals of the cost section >>
    result,             \* << >> or << the result dictionary, once bound >>
    err,                \* << >> or << the exception / exit that ended the run >>
    printed,            \* << >> or << the result main printed >>
    scanner,            \* the locals of scan() (scanner.py)
    monitor,            \* the arguments and result of probe_rpc() (multi_chain_monitor.py)
    memo                \* << >> or << an earlier invocation of the packer >>

vars == << pc, gas_arg, gas_used, args, src, raw, sizes, total_bytes,
           base_fee_gwei, blob_base_fee_gwei, caller, bin_cap, order, k, bins,
           remaining, cost, result, err, printed, scanner, monitor,
           memo >>

mainVars == << gas_arg, gas_used, args, src, raw, total_bytes, base_fee_gwei,
               blob_base_fee_gwei, cost, result, err, printed,
               scanner, monitor >>

(***************************************************************************)
(* Program constants.                                                       *)
(***************************************************************************)
BLOB_SIZE_BYTES == 131072
DATA_GAS_PER_BLOB == 131072
CALLDATA_GAS_PER_BYTE == 16

(***************************************************************************)
(* Bounds of the model.                                                     *)
(***************************************************************************)
\* longest list of tokens / lines given to a run of main()
MaxTokens == 3
\* longest list of sizes given to the packer when it is called directly
MaxItems == 3
\* largest bin capacity when the packer is called directly
MaxCap == 3

None == << >>
Some(v) == << v >>

\* sequences over S of length at most n
SeqsUpTo(S, n) == UNION { [1..m -> S] : m \in 0..n }

Max(a, b) == IF a >= b THEN a ELSE b

RECURSIVE SumSeq(_)
SumSeq(s) == IF s = << >> THEN 0 ELSE Head(s) + SumSeq(Tail(s))

\* sum(sizes[j] for j in bin_)
RECURSIVE SumOf(_, _)
SumOf(sz, members) ==
    IF members = << >> THEN 0
    ELSE sz[Head(members) + 1] + SumOf(sz, Tail(members))


(***************************************************************************)
(* first_fit_decreasing_binpack (lines 119-145).                            *)
(***************************************************************************)
RECURSIVE Reverse(_)
Reverse(s) == IF s = << >> THEN << >> ELSE Append(Reverse(Tail(s)), Head(s))

\* range(len(sizes)): the indices 0 .. n-1 in ascending order
Range(n) == [p \in 1..n |-> p - 1]

\* One insertion of a stable ascending sort by key sz[i + 1]: x, which comes
\* later in the input than every element of `sorted`, goes behind every element
\* whose key is not larger than its own.
RECURSIVE InsertByKey(_, _, _)
InsertByKey(sorted, x, sz) ==
    IF sorted = << >> THEN << x >>
    ELSE IF sz[Head(sorted) + 1] <= sz[x + 1]
         THEN << Head(sorted) >> \o InsertByKey(Tail(sorted), x, sz)
         ELSE << x >> \o sorted

\* the stable ascending sort of list.sort
RECURSIVE StableSortAsc(_, _)
StableSortAsc(s, sz) ==
    IF s = << >> THEN << >>
    ELSE InsertByKey(StableSortAsc(SubSeq(s, 1, Len(s) - 1), sz), s[Len(s)], sz)

\* a sort that leaves equal keys in the reverse of their input order
PyOrderUnstable(sz) == Reverse(StableSortAsc(Range(Len(sz)), sz))

\* a sort over range(len(sizes) - 1)
PyOrderShort(sz) ==
    Reverse(StableSortAsc(Reverse(Range(Max(Len(sz) - 1, 0))), sz))

\* sorted(range(len(sizes)), key=lambda i: sizes[i], reverse=True), line 131.
\* With reverse=True list.sort reverses the list, sorts it stably in ascending
\* order and reverses the outcome, which keeps equal keys in input order.
PyOrder(sz) == Reverse(StableSortAsc(Reverse(Range(Len(sz))), sz))

\* a comparison that lets a payload one byte too large in
FitsOffByOne(s, rem) == s <= rem + 1

\* a test that leaves a payload out of a bin it would fill exactly
FitsStrictly(s, rem) == s < rem

\* the test of line 137
Fits(s, rem) == s <= rem

\* the inner loop of lines 136-141, from bin position b on: the position
\* (1-based) of the bin the payload goes to, 0 when the loop ends unplaced
RECURSIVE ScanBins(_, _, _)
ScanBins(rem, s, b) ==
    IF b > Len(rem) THEN 0
    ELSE IF Fits(s, rem[b]) THEN b
    ELSE ScanBins(rem, s, b + 1)

\* a scan that keeps the last bin that fits instead of stopping at the first
RECURSIVE ScanBinsLast(_, _, _)
ScanBinsLast(rem, s, b) ==
    IF b > Len(rem) THEN 0
    ELSE LET later == ScanBinsLast(rem, s, b + 1)
         IN  IF later # 0 THEN later
             ELSE IF Fits(s, rem[b]) THEN b ELSE 0

\* a placement in the last open bin that fits
FirstFitBinLast(rem, s) == ScanBinsLast(rem, s, 1)

\* the bin the loop of lines 136-141 places a payload of size s in
FirstFitBin(rem, s) == ScanBins(rem, s, 1)

\* an entry of the packer that keeps the lists of the call before
PackBeginStale ==
    /\ pc = "pack_call"
    /\ order' = PyOrder(sizes)
    /\ bins' = bins
    /\ remaining' = remaining
    /\ k' = 1
    /\ pc' = "pack_loop"
    /\ UNCHANGED << sizes, bin_cap, caller, memo >>
    /\ UNCHANGED mainVars

\* an entry of the packer that starts with one open, empty bin
PackBeginPreopened ==
    /\ pc = "pack_call"
    /\ order' = PyOrder(sizes)
    /\ bins' = << << >> >>
    /\ remaining' = << bin_cap >>
    /\ k' = 1
    /\ pc' = "pack_loop"
    /\ UNCHANGED << sizes, bin_cap, caller, memo >>
    /\ UNCHANGED mainVars

\* lines 131-133: the packer is entered and its locals are set
PackBegin ==
    /\ pc = "pack_call"
    /\ order' = PyOrder(sizes)
    /\ bins' = << >>
    /\ remaining' = << >>
    /\ k' = 1
    /\ pc' = "pack_loop"
    /\ UNCHANGED << sizes, bin_cap, caller, memo >>
    /\ UNCHANGED mainVars

\* a placement that leaves the remaining capacity of the bin as it was
PlaceInBinNoDebit(bs, rem, b, i, s) ==
    << [bs EXCEPT ![b] = Append(@, i)], rem >>

\* lines 138-139: payload i of size s goes into the open bin b
PlaceInBin(bs, rem, b, i, s) ==
    << [bs EXCEPT ![b] = Append(@, i)], [rem EXCEPT ![b] = @ - s] >>

\* a new bin put in front of the others
OpenBinFront(bs, rem, i, s, cap) ==
    << << << i >> >> \o bs, << cap - s >> \o rem >>

\* lines 143-144: a new bin is opened for payload i of size s
OpenBin(bs, rem, i, s, cap) ==
    << Append(bs, << i >>), Append(rem, cap - s) >>

\* an iteration that passes over the payload behind the one it places
PackStepSkip ==
    /\ pc = "pack_loop"
    /\ k <= Len(order)
    /\ LET i == order[k]
           s == sizes[i + 1]
           b == FirstFitBin(remaining, s)
           nxt == IF b # 0 THEN PlaceInBin(bins, remaining, b, i, s)
                  ELSE OpenBin(bins, remaining, i, s, bin_cap)
       IN  /\ bins' = nxt[1]
           /\ remaining' = nxt[2]
    /\ k' = k + 2
    /\ UNCHANGED << pc, sizes, bin_cap, order, caller, memo >>
    /\ UNCHANGED mainVars

\* one iteration of the outer loop, lines 134-144
PackStep ==
    /\ pc = "pack_loop"
    /\ k <= Len(order)
    /\ LET i == order[k]
           s == sizes[i + 1]
           b == FirstFitBin(remaining, s)
           nxt == IF b # 0 THEN PlaceInBin(bins, remaining, b, i, s)
                  ELSE OpenBin(bins, remaining, i, s, bin_cap)
       IN  /\ bins' = nxt[1]
           /\ remaining' = nxt[2]
    /\ k' = k + 1
    /\ UNCHANGED << pc, sizes, bin_cap, order, caller, memo >>
    /\ UNCHANGED mainVars

\* line 145 (and, in main, line 215): the loop is over, bins is returned
PackReturn ==
    /\ pc = "pack_loop"
    /\ k > Len(order)
    /\ pc' = IF caller = "main" THEN "costs" ELSE "returned"
    /\ UNCHANGED << sizes, bin_cap, order, k, bins, remaining, caller, memo >>
    /\ UNCHANGED mainVars

(***************************************************************************)
(* Reading the sizes: parse_sizes_arg (lines 83-93) and read_sizes_file     *)
(* (lines 98-116).  A token is one piece of the --sizes string between      *)
(* commas, or one line of the file, after strip() and replace("_", ""):     *)
(* blank, the text of an integer n, or text int() does not accept.          *)
(***************************************************************************)
Blank == [kind |-> "blank", n |-> 0]
Junk == [kind |-> "junk", n |-> 0]
IntTok(v) == [kind |-> "int", n |-> v]

\* what an exception or exit carries: its type, its message, and the payload
\* index, payload size and capacity its message names (None when it names none)
Error(exc, msg, index, size, capacity) ==
    [exc |-> exc, msg |-> msg, index |-> index, size |-> size,
     capacity |-> capacity]

NegativeSizeError == Error("ValueError", "Sizes must be non-negative",
                           None, None, None)
IntParseError == Error("ValueError", "invalid literal for int()",
                       None, None, None)

\* a parser that lets negative numbers through to the caller
RECURSIVE ParseFromNoCheck(_, _, _)
ParseFromNoCheck(toks, p, out) ==
    IF p > Len(toks) THEN [ok |-> TRUE, out |-> out, err |-> None]
    ELSE IF toks[p].kind = "blank" THEN ParseFromNoCheck(toks, p + 1, out)
    ELSE IF toks[p].kind = "junk"
         THEN [ok |-> FALSE, out |-> << >>, err |-> Some(IntParseError)]
    ELSE ParseFromNoCheck(toks, p + 1, Append(out, toks[p].n))

\* the loop of lines 85-92 (and 102-109) from token p on, `out` so far
RECURSIVE ParseFrom(_, _, _)
ParseFrom(toks, p, out) ==
    IF p > Len(toks) THEN [ok |-> TRUE, out |-> out, err |-> None]
    ELSE IF toks[p].kind = "blank" THEN ParseFrom(toks, p + 1, out)
    ELSE IF toks[p].kind = "junk"
         THEN [ok |-> FALSE, out |-> << >>, err |-> Some(IntParseError)]
    ELSE IF toks[p].n < 0
         THEN [ok |-> FALSE, out |-> << >>, err |-> Some(NegativeSizeError)]
    ELSE ParseFrom(toks, p + 1, Append(out, toks[p].n))

\* parse_sizes_arg(s), lines 83-93, on the tokens of s
parse_sizes_arg(toks) == ParseFrom(toks, 1, << >>)

\* read_sizes_file(path), lines 98-116, on the lines of the file.  `path` is
\* what open() finds: "file" (a text file of these lines), "nofile"
\* (FileNotFoundError, lines 110-112), "unreadable" (another OSError, such as
\* a directory: lines 113-115) or "undecodable" (a file that is not UTF-8:
\* the first read of line 102 raises UnicodeDecodeError, which is not an
\* OSError and is not caught)
read_sizes_file(path, toks) ==
    IF path = "nofile"
    THEN [ok |-> FALSE, out |-> << >>,
          err |-> Some(Error("SystemExit", "File not found", None, None, None))]
    ELSE IF path = "unreadable"
    THEN [ok |-> FALSE, out |-> << >>,
          err |-> Some(Error("SystemExit", "Failed to read file",
                             None, None, None))]
    ELSE IF path = "undecodable"
    THEN [ok |-> FALSE, out |-> << >>,
          err |-> Some(Error("UnicodeDecodeError", "utf-8 codec can't decode",
                             None, None, None))]
    ELSE ParseFrom(toks, 1, << >>)

\* lines 188-191.  The empty list of tokens with --sizes is the empty string,
\* which `if args.sizes:` takes for absent: read_sizes_file(None) is called
\* and open(None) raises TypeError.
ReadInput(s, toks) ==
    IF s = "sizes"
    THEN IF toks # << >> THEN parse_sizes_arg(toks)
         ELSE [ok |-> FALSE, out |-> << >>,
               err |-> Some(Error("TypeError", "open(None)", None, None, None))]
    ELSE read_sizes_file(s, toks)

\* scan() and probe_rpc() have not been called
NoScan == [max_report |-> 0, head |-> 0, start |-> 0, step |-> 1, n |-> 0,
           txs |-> << >>, ti |-> 1, outliers |-> << >>, scanned |-> 0]
NoProbe == [base_fee |-> << >>, gas_price |-> << >>, high |-> 0, low |-> 0,
            result |-> << >>]

\* the defaults of --tip-gwei, --blobs, --calldata-bytes and --json
\* (eip4844_blob_cost.py lines 88-92)
NoArgs == [tip_gwei |-> << 1, 0 >>, blobs |-> 0, calldata_bytes |-> 0, json |-> FALSE]

\* line 175: args.gas_used = max(0, args.gas_used)
ClampGas(g) == Max(0, g)

(***************************************************************************)
(* main(), lines 173-300.                                                   *)
(***************************************************************************)
\* lines 174-184: the arguments are parsed, gas_used is clamped, the RPC URL
\* is checked for the placeholder
Start(GasArgs) ==
    /\ pc = "start"
    /\ \E g \in GasArgs, placeholder \in BOOLEAN :
          /\ gas_arg' = g
          /\ gas_used' = ClampGas(g)
          /\ IF placeholder
             THEN /\ pc' = "failed"
                  /\ err' = Some(Error("SystemExit", "RPC URL placeholder",
                                       None, None, None))
             ELSE /\ pc' = "read_sizes"
                  /\ err' = err
    /\ UNCHANGED << printed, scanner, monitor, src, raw, sizes, total_bytes, base_fee_gwei,
                    blob_base_fee_gwei, caller, bin_cap, order, k, bins,
                    remaining, result, memo, args, cost >>

\* lines 188-191: the sizes are read from --sizes or --file
ReadSizes(Tokens, maxLen) ==
    /\ pc = "read_sizes"
    /\ \E s \in {"sizes", "file", "nofile", "unreadable", "undecodable"},
          toks \in SeqsUpTo(Tokens, maxLen) :
          /\ s \in {"nofile", "unreadable", "undecodable"} => toks = << >>
          /\ src' = s
          /\ raw' = toks
          /\ LET r == ReadInput(s, toks)
             IN  IF r.ok
                 THEN /\ sizes' = r.out
                      /\ pc' = "validate"
                      /\ err' = err
                 ELSE /\ sizes' = sizes
                      /\ pc' = "failed"
                      /\ err' = r.err
    /\ UNCHANGED << printed, scanner, monitor, gas_arg, gas_used, total_bytes, base_fee_gwei, blob_base_fee_gwei,
                    caller, bin_cap, order, k, bins, remaining, result, memo, args, cost >>

\* [max(0, s) for s in sizes], line 192
ClampSizes(sz) == [p \in 1..Len(sz) |-> Max(0, sz[p])]

\* a check that never finds a payload too large
AnyOversizeNever(sz) == FALSE

\* any(s > BLOB_SIZE_BYTES for s in sizes), line 193
AnyOversize(sz) == \E p \in 1..Len(sz) : sz[p] > BLOB_SIZE_BYTES

\* the ValueError of line 194: its message names the capacity only
OversizeError == Error("ValueError", "Payload exceeds blob capacity",
                       None, None, Some(BLOB_SIZE_BYTES))

\* lines 192-194: negative sizes are clamped, a payload larger than a blob
\* ends the run
Validate ==
    /\ pc = "validate"
    /\ sizes' = ClampSizes(sizes)
    /\ IF AnyOversize(ClampSizes(sizes))
       THEN /\ pc' = "failed"
            /\ err' = Some(OversizeError)
       ELSE /\ pc' = "summary"
            /\ err' = err
    /\ UNCHANGED << printed, scanner, monitor, gas_arg, gas_used, src, raw, total_bytes, base_fee_gwei,
                    blob_base_fee_gwei, caller, bin_cap, order, k, bins,
                    remaining, result, memo, args, cost >>

\* lines 196-197: total_bytes, then the summary line, whose min(sizes) and
\* max(sizes) raise ValueError on an empty list
Summary ==
    /\ pc = "summary"
    /\ total_bytes' = SumSeq(sizes)
    /\ IF sizes = << >>
       THEN /\ pc' = "failed"
            /\ err' = Some(Error("ValueError", "min() arg is an empty sequence",
                                 None, None, None))
       ELSE /\ pc' = "connect"
            /\ err' = err
    /\ UNCHANGED << printed, scanner, monitor, gas_arg, gas_used, src, raw, sizes, base_fee_gwei,
                    blob_base_fee_gwei, caller, bin_cap, order, k, bins,
                    remaining, result, memo, args, cost >>

\* lines 200-204 with connect (lines 51-62): the node is reached or the run
\* exits, and the base fee of the latest block is read
Connect(BaseFees) ==
    /\ pc = "connect"
    /\ \E up \in BOOLEAN, fee \in BaseFees :
          IF up
          THEN /\ base_fee_gwei' = fee
               /\ pc' = "middleware"
               /\ err' = err
          ELSE /\ base_fee_gwei' = base_fee_gwei
               /\ pc' = "failed"
               /\ err' = Some(Error("SystemExit", "Failed to connect to RPC",
                                    None, None, None))
    /\ UNCHANGED << printed, scanner, monitor, gas_arg, gas_used, src, raw, sizes, total_bytes,
                    blob_base_fee_gwei, caller, bin_cap, order, k, bins,
                    remaining, result, memo, args, cost >>

\* what lines 205-206 do depends on the web3 library that is installed:
\* "ImportError" when web3.middleware has no geth_poa_middleware, "ValueError"
\* when the onion refuses the middleware connect() has injected already
\* (line 59), "injected" when it takes it
MiddlewareOutcomes == {"injected", "ImportError", "ValueError"}

\* lines 205-206: geth_poa_middleware is imported and injected once more,
\* outside any try; an exception ends the run
Middleware ==
    /\ pc = "middleware"
    /\ \E outcome \in MiddlewareOutcomes :
          IF outcome = "injected"
          THEN /\ pc' = "blob_fee"
               /\ err' = err
          ELSE /\ pc' = "failed"
               /\ err' = Some(Error(outcome, "geth_poa_middleware",
                                    None, None, None))
    /\ UNCHANGED << printed, scanner, monitor, gas_arg, gas_used, src, raw, sizes, total_bytes,
                    base_fee_gwei, blob_base_fee_gwei, caller, bin_cap, order,
                    k, bins, remaining, result, memo, args, cost >>

\* lines 208-210 with try_get_blob_base_fee_gwei (lines 65-81): the override
\* when one is given, else what the node exposes, else None
BlobFee(BlobFees) ==
    /\ pc = "blob_fee"
    /\ \E override \in {None} \cup {Some(f) : f \in BlobFees},
          node \in {None} \cup {Some(f) : f \in BlobFees} :
          blob_base_fee_gwei' = IF override # None THEN override ELSE node
    /\ pc' = "pack_call"
    /\ caller' = "main"
    /\ bin_cap' = BLOB_SIZE_BYTES
    /\ UNCHANGED << printed, scanner, monitor, gas_arg, gas_used, src, raw, sizes, total_bytes, base_fee_gwei,
                    order, k, bins, remaining, result, err, memo, args, cost >>

(***************************************************************************)
(* Floats.  A cost is held in ETH as the double nearest to its decimal      *)
(* value, and round(x, n) rounds the value of the double, so a decimal tie   *)
(* goes up or down with the side of the tie the double lies on.              *)
(***************************************************************************)
\* the number of binary digits of n >= 0
RECURSIVE BitLen(_)
BitLen(n) == IF n = 0 THEN 0 ELSE 1 + BitLen(n \div 2)

\* the binary digits of n >= 0, highest first
RECURSIVE BinDigits(_)
BinDigits(n) ==
    IF n = 0 THEN << >> ELSE Append(BinDigits(n \div 2), n % 2)

\* The binary digits of num / den are taken one at a time until the 53 of a
\* double are there.  A state of the taking: rem / den is what is left behind
\* the digits taken, `need` digits are missing, `started` is FALSE before the
\* first digit 1, k digits are taken behind the point; at the end `up` says
\* whether the digits that follow round the last one up, and `exact` whether
\* there are none.
SigStart(rem, need, ds, taken) ==
    [rem |-> rem, need |-> need, started |-> ds # << >>, digits |-> ds,
     k |-> taken, up |-> FALSE, exact |-> FALSE, done |-> FALSE]

\* one digit of st.rem / den, for machine words 0 <= st.rem < den <= 2^30
SigStep(st, den) ==
    IF st.done THEN st
    ELSE IF st.rem = 0 THEN [st EXCEPT !.exact = TRUE, !.done = TRUE]
    ELSE LET bit == IF 2 * st.rem >= den THEN 1 ELSE 0
             rest == 2 * st.rem - bit * den
         IN  IF st.need = 0
             THEN [st EXCEPT !.done = TRUE,
                      !.up = bit = 1 /\ (rest > 0 \/ st.digits[Len(st.digits)] = 1)]
             ELSE IF st.started \/ bit = 1
                  THEN [st EXCEPT !.rem = rest, !.need = @ - 1, !.started = TRUE,
                           !.digits = Append(@, bit), !.k = @ + 1]
                  ELSE [st EXCEPT !.rem = rest, !.k = @ + 1]

RECURSIVE SigRun(_, _)
SigRun(st, den) ==
    IF st.done THEN st
    ELSE SigRun(SigStep(SigStep(SigStep(SigStep(SigStep(SigStep(SigStep(
                SigStep(st, den), den), den), den), den), den), den), den), den)

\* the 53 significant binary digits of num / den (num >= 0, 0 < den <= 2^30)
SigDigits(num, den) ==
    SigRun(SigStart(num % den, 53 - BitLen(num \div den),
                    BinDigits(num \div den), 0), den)

\* 1, -1 or 0 as the digits s round up, round down or are exact
DirOf(s) == IF s.exact THEN 0 ELSE IF s.up THEN 1 ELSE -1

\* the side of num / den (num >= 0, 0 < den <= 2^30) on which the double
\* nearest to it lies: 1 above, -1 below, 0 when the double is num / den
FloatDir(num, den) == DirOf(SigDigits(num, den))

\* round(x, n) of the double x nearest to c / den, in units of `unit` / den
\* (unit / den = 10^-n, unit even): to the nearest multiple of unit, and on a
\* decimal tie to the side the double lies on, to the even multiple when the
\* double is the tie itself
RoundFloat(c, unit, den) ==
    LET q == c \div unit
        r == c % unit
        d == FloatDir(c, den)
    IN  IF 2 * r < unit THEN unit * q
        ELSE IF 2 * r > unit THEN unit * (q + 1)
        ELSE IF d > 0 THEN unit * (q + 1)
        ELSE IF d < 0 THEN unit * q
        ELSE IF q % 2 = 0 THEN unit * q ELSE unit * (q + 1)

GweiPerEth == 1000000000

\* round(x, 8) of a cost of c >= 0 Gwei held in ETH as a float: 10^-8 ETH is
\* 10 Gwei, so the cost is rounded to a multiple of 10 Gwei
Round8(c) == RoundFloat(c, 10, GweiPerEth)

\* A price in Gwei is a float.  The prices of the model are a whole number n
\* of Gwei with d tenths of a wei on top, 0 <= d <= 9, the pair << n, d >>:
\* the part of a price below one wei is what the conversion to wei drops.
Gwei(n) == << n, 0 >>

\* the least price above 0 of the model, 10^-10 Gwei (--tip-gwei 1e-10)
SubWei == << 0, 1 >>

\* eff_gwei = base_fee_gwei + args.tip_gwei, line 222; the base fee is what
\* the node answers, a whole number of Gwei here
EffGwei(base, tip) == << base + tip[1], tip[2] >>

\* Web3.to_wei(x, "gwei") raises ValueError on a negative amount (the wei
\* value must lie in 0 .. 2**256 - 1); lines 223, 227, 230
ToWeiRaises(gwei) == gwei[1] < 0

ToWeiError == Error("ValueError", "Resulting wei value must be between 1 and 2**256 - 1",
                    None, None, None)

\* Web3.to_wei(x, "gwei") for x >= 0: int(Decimal(str(x)) * 10^9), the
\* whole number of wei, the tenths of a wei cut off: n Gwei are left (the
\* value is given in Gwei)
ToWei(gwei) == gwei[1]

\* a cost that takes the smaller of 0 and gas_used
ExecCostMin(eff, gas) == ToWei(eff) * (IF gas <= 0 THEN gas ELSE 0)

\* exec_cost_eth, line 223: to_wei(eff_gwei) * max(0, gas_used), in Gwei
ExecCost(eff, gas) == ToWei(eff) * Max(0, gas)

\* a blob cost that charges one blob whatever the count
BlobCostOneBlob(fee, count) ==
    IF fee # None /\ count > 0
    THEN Some(ToWei(fee[1]) * DATA_GAS_PER_BLOB)
    ELSE None

\* blob_cost_eth, lines 225-227: None, or
\* to_wei(blob_base_fee_gwei) * blob_count * DATA_GAS_PER_BLOB, in Gwei
BlobCost(fee, count) ==
    IF fee # None /\ count > 0
    THEN Some(ToWei(fee[1]) * count * DATA_GAS_PER_BLOB)
    ELSE None

\* calldata_cost_eth, lines 229-230: to_wei(eff_gwei) * calldata_gas, in Gwei
CalldataCost(eff, nbytes) == ToWei(eff) * (nbytes * CALLDATA_GAS_PER_BYTE)

\* lines 250-257: the entry of the result for the bin at position b
BinEntry(sz, bs, b) ==
    [blobIndex |-> b - 1,
     payloadIndices |-> bs[b],
     payloadBytes |-> SumOf(sz, bs[b]),
     freeBytes |-> BLOB_SIZE_BYTES - SumOf(sz, bs[b])]

\* lines 221-230: the locals of the cost section
CostLocals(base, tip, gas, fee, count, total) ==
    [tip |-> tip,
     eff_gwei |-> EffGwei(base, tip),
     exec |-> ExecCost(EffGwei(base, tip), gas),
     blob |-> BlobCost(fee, count),
     calldata |-> CalldataCost(EffGwei(base, tip), total)]

\* lines 245-249: the entry "costsETH" of the result
CostsETH(c) ==
    [execution |-> Round8(c.exec),
     blobs |-> IF c.blob # None THEN Some(Round8(c.blob[1])) ELSE None,
     calldata |-> Round8(c.calldata)]

\* lines 250-257: the entry "bins" of the result
BinEntries(sz, bs) == [b \in 1..Len(bs) |-> BinEntry(sz, bs, b)]

\* the locals of the cost section with the entries of the result of lines
\* 232-268 that are evaluated before line 261
Evaluated(c, sz, bs) ==
    [tip |-> c.tip, eff_gwei |-> c.eff_gwei, exec |-> c.exec, blob |-> c.blob,
     calldata |-> c.calldata, costsETH |-> CostsETH(c),
     binEntries |-> BinEntries(sz, bs)]

\* line 261 reads total_free_bytes, a name main never binds (as line 262
\* reads avg_utilization, bound only behind the return of parse_sizes_arg,
\* lines 94-97)
UnboundName == Error("NameError", "name 'total_free_bytes' is not defined",
                     None, None, None)

\* lines 216-268: blob_count and the three costs; a negative effective
\* price, or a negative blob base fee with blobs in use, ends the run in
\* to_wei.  Then the entries of the result are evaluated in their order up
\* to line 261, whose NameError ends the run: result is never bound and
\* lines 270-300 are never reached.
Costs(Tips) ==
    /\ pc = "costs"
    /\ \E tip \in Tips :
          LET blob_count == Len(bins)
              c == CostLocals(base_fee_gwei, tip, gas_used,
                              blob_base_fee_gwei, blob_count, total_bytes)
          IN  IF \/ ToWeiRaises(c.eff_gwei)
                 \/ /\ blob_base_fee_gwei # None
                    /\ blob_count > 0
                    /\ ToWeiRaises(blob_base_fee_gwei[1])
              THEN /\ err' = Some(ToWeiError)
                   /\ cost' = cost
              ELSE /\ err' = Some(UnboundName)
                   /\ cost' = Some(Evaluated(c, sizes, bins))
    /\ pc' = "failed"
    /\ UNCHANGED << printed, scanner, monitor, gas_arg, gas_used, args, src, raw, sizes, total_bytes,
                    base_fee_gwei, blob_base_fee_gwei, caller, bin_cap, order,
                    k, bins, remaining, result, memo >>

(***************************************************************************)
(* eip4844_blob_cost.py: main(), lines 95-220.                              *)
(***************************************************************************)
\* lines 96-105: the arguments are parsed, the RPC URL is checked for the
\* placeholder
BcStart(GasArgs, TipArgs, BlobArgs, ByteArgs) ==
    /\ pc = "bc_start"
    /\ \E g \in GasArgs, tip \in TipArgs, nb \in BlobArgs, cb \in ByteArgs,
          placeholder \in BOOLEAN :
          /\ gas_arg' = g
          /\ gas_used' = g
          /\ args' = [NoArgs EXCEPT !.tip_gwei = tip, !.blobs = nb,
                                     !.calldata_bytes = cb]
          /\ IF placeholder
             THEN /\ pc' = "bc_failed"
                  /\ err' = Some(Error("SystemExit", "RPC URL placeholder",
                                       None, None, None))
             ELSE /\ pc' = "bc_connect"
                  /\ err' = err
    /\ UNCHANGED << printed, scanner, monitor, src, raw, sizes, total_bytes, base_fee_gwei,
                    blob_base_fee_gwei, caller, bin_cap, order, k, bins,
                    remaining, result, memo, cost >>

\* line 122 reads eff_gwei, a local of main that is bound at line 131 only
UnboundLocal == Error("UnboundLocalError", "eff_gwei", None, None, None)

\* lines 106-109: connect; then the arguments are parsed again and gas_used
\* and calldata_bytes are clamped at 0
BcConnect ==
    /\ pc = "bc_connect"
    /\ \E up \in BOOLEAN :
          IF up
          THEN /\ gas_used' = Max(0, gas_used)
               /\ args' = [args EXCEPT
                             !.calldata_bytes = Max(0, args.calldata_bytes)]
               /\ pc' = "bc_reconnect"
               /\ err' = err
          ELSE /\ pc' = "bc_failed"
               /\ err' = Some(Error("SystemExit", "Failed to connect to RPC",
                                    None, None, None))
               /\ UNCHANGED << gas_used, args >>
    /\ UNCHANGED << printed, scanner, monitor, gas_arg, src, raw, sizes, total_bytes, base_fee_gwei,
                    blob_base_fee_gwei, caller, bin_cap, order, k, bins,
                    remaining, result, memo, cost >>

\* lines 111-122: connect once more, the base fee of the latest block is
\* read, and the print of line 122 ends the run: lines 124-220 are never
\* reached
BcReconnect(BaseFees) ==
    /\ pc = "bc_reconnect"
    /\ \E up \in BOOLEAN, fee \in BaseFees :
          IF up
          THEN /\ base_fee_gwei' = fee
               /\ err' = Some(UnboundLocal)
          ELSE /\ base_fee_gwei' = base_fee_gwei
               /\ err' = Some(Error("SystemExit", "Failed to connect to RPC",
                                    None, None, None))
    /\ pc' = "bc_failed"
    /\ UNCHANGED << printed, scanner, monitor, gas_arg, gas_used, args, src, raw, sizes, total_bytes,
                    blob_base_fee_gwei, caller, bin_cap, order, k, bins,
                    remaining, result, memo, cost >>

(***************************************************************************)
(* gas_cost_estimator.py: main(), lines 60-107, called with --tip-gwei     *)
(* (the other member of the group is --tip-percent) and without            *)
(* --eth-price, with or without --json.                                     *)
(***************************************************************************)
\* round(total_eth, 6), line 89: 10^-6 ETH is 1000 Gwei
Round6(c) == RoundFloat(c, 1000, GweiPerEth)

\* round(x, 3) of a price, lines 85-87, in Gwei: the tenths of a wei are
\* rounded away
Round3(gwei) == gwei[1]

\* Web3.from_wei raises ValueError on a negative amount, line 80
FromWeiRaises(w) == w < 0

\* lines 61-62: the arguments are parsed and the node is reached
GeStart(GasArgs, TipArgs) ==
    /\ pc = "ge_start"
    /\ \E g \in GasArgs, tip \in TipArgs, js \in BOOLEAN, up \in BOOLEAN :
          /\ gas_arg' = g
          /\ gas_used' = g
          /\ args' = [NoArgs EXCEPT !.tip_gwei = tip, !.json = js]
          /\ IF up
             THEN /\ pc' = "ge_fees"
                  /\ err' = err
             ELSE /\ pc' = "ge_failed"
                  /\ err' = Some(Error("SystemExit", "Failed to connect to RPC",
                                       None, None, None))
    /\ UNCHANGED << printed, scanner, monitor, src, raw, sizes, total_bytes, base_fee_gwei,
                    blob_base_fee_gwei, caller, bin_cap, order, k, bins,
                    remaining, result, memo, cost >>

\* lines 66-70: the base fee of the latest block
GeFees(BaseFees) ==
    /\ pc = "ge_fees"
    /\ \E fee \in BaseFees : base_fee_gwei' = fee
    /\ pc' = "ge_costs"
    /\ UNCHANGED << printed, scanner, monitor, gas_arg, gas_used, args, src, raw, sizes, total_bytes,
                    blob_base_fee_gwei, caller, bin_cap, order, k, bins,
                    remaining, result, err, memo, cost >>

\* lines 72-90: the effective price, total_wei = to_wei(eff) * gas_used with
\* gas_used as it was given, total_eth = from_wei(total_wei) and the out
\* dictionary
GeCosts ==
    /\ pc = "ge_costs"
    /\ LET eff == EffGwei(base_fee_gwei, args.tip_gwei)
           total == ToWei(eff) * gas_used
       IN  IF ToWeiRaises(eff) \/ FromWeiRaises(total)
           THEN /\ pc' = "ge_failed"
                /\ err' = Some(ToWeiError)
                /\ UNCHANGED << cost, result >>
           ELSE /\ pc' = "ge_emit"
                /\ err' = err
                /\ cost' = Some([tip |-> args.tip_gwei, eff_gwei |-> eff,
                                 exec |-> total])
                /\ result' = Some([latestBaseFeeGwei |-> base_fee_gwei,
                                   tipGwei |-> Round3(args.tip_gwei),
                                   effectivePriceGwei |-> Round3(eff),
                                   gasUsed |-> gas_used,
                                   estimatedCostETH |-> Round6(total)])
    /\ UNCHANGED << printed, scanner, monitor, gas_arg, gas_used, args, src, raw, sizes, total_bytes,
                    base_fee_gwei, blob_base_fee_gwei, caller, bin_cap, order,
                    k, bins, remaining, memo >>

\* line 99 reads tip_mode, a name bound nowhere in the file
UnboundTipMode == Error("NameError", "name 'tip_mode' is not defined",
                        None, None, None)

\* lines 94-107: with --json out is printed as JSON; without it the lines of
\* the report are printed up to line 99, whose NameError ends the run before
\* the cost is printed
GeEmit ==
    /\ pc = "ge_emit"
    /\ IF args.json
       THEN /\ pc' = "ge_done"
            /\ printed' = result
            /\ err' = err
       ELSE /\ pc' = "ge_failed"
            /\ printed' = printed
            /\ err' = Some(UnboundTipMode)
    /\ UNCHANGED << scanner, monitor, gas_arg, gas_used, args, src, raw, sizes, total_bytes,
                    base_fee_gwei, blob_base_fee_gwei, caller, bin_cap, order,
                    k, bins, remaining, result, memo, cost >>

(***************************************************************************)
(* Inputs of the runs.                                                      *)
(***************************************************************************)
\* the integers a token may hold
TokenValues ==
    {-1, 0, 50000, 64000, 65536, 70000, 90000, 131072, 131073, 180000}
Tokens == {Blank, Junk} \cup {IntTok(v) : v \in TokenValues}
GasArgs == {-1, 0, 21000}
BaseFees == {0, 2}
BlobFees == {SubWei, Gwei(1)}
Tips == {Gwei(-3), Gwei(-1), Gwei(0), SubWei, Gwei(1)}
BlobArgs == {-1, 0, 2}
ByteArgs == {-1, 0, 70000}

(***************************************************************************)
(* Spec: one run of main().                                                 *)
(***************************************************************************)
\* the state before main() of any of the scripts has run
Fresh ==
    /\ gas_arg = 0
    /\ gas_used = 0
    /\ args = NoArgs
    /\ cost = None
    /\ src = "sizes"
    /\ raw = << >>
    /\ sizes = << >>
    /\ total_bytes = 0
    /\ base_fee_gwei = 0
    /\ blob_base_fee_gwei = None
    /\ caller = "main"
    /\ bin_cap = BLOB_SIZE_BYTES
    /\ order = << >>
    /\ k = 1
    /\ bins = << >>
    /\ remaining = << >>
    /\ result = None
    /\ err = None
    /\ printed = None
    /\ scanner = NoScan
    /\ monitor = NoProbe
    /\ memo = None

Init ==
    /\ pc = "start"
    /\ Fresh

Next ==
    \/ Start(GasArgs)
    \/ ReadSizes(Tokens, MaxTokens)
    \/ Validate
    \/ Summary
    \/ Connect(BaseFees)
    \/ Middleware
    \/ BlobFee(BlobFees)
    \/ PackBegin
    \/ PackStep
    \/ PackReturn
    \/ Costs(Tips)

Spec == Init /\ [][Next]_vars

(***************************************************************************)
(* SpecCli: one run of eip4844_blob_cost.py or of gas_cost_estimator.py.    *)
(***************************************************************************)
InitCli ==
    /\ pc \in {"bc_start", "ge_start"}
    /\ Fresh

NextBc ==
    \/ BcStart(GasArgs, Tips, BlobArgs, ByteArgs)
    \/ BcConnect
    \/ BcReconnect(BaseFees)

NextGe ==
    \/ GeStart(GasArgs, Tips)
    \/ GeFees(BaseFees)
    \/ GeCosts
    \/ GeEmit

NextCli ==
    \/ NextBc
    \/ NextGe

SpecCli == InitCli /\ [][NextCli]_vars

(***************************************************************************)
(* SpecCost: the costs of blob_packing_planner.py (lines 175 and 221-230)   *)
(* as a function of their inputs: gas_arg, the fee snapshot, args.blobs for *)
(* blob_count and args.calldata_bytes for total_bytes.  They are evaluated  *)
(* once, and once more on another gas_used or another number of blobs with  *)
(* the fee snapshot held; memo keeps the first evaluation.                  *)
(***************************************************************************)
MaxBlobs == 2
CostGas == {-2, -1, 0, 1, 4, 21000}
CostBaseFees == {0, 1, 2}
CostTips == {Gwei(-1), Gwei(0), SubWei, Gwei(1)}
CostBytes == {0, 65536, 131072, 154000, 262144}
CostBlobFees == {Gwei(-1), Gwei(0), SubWei, Gwei(1)}

InitCost ==
    /\ pc = "cost_call"
    /\ gas_arg \in CostGas
    /\ gas_used = 0
    /\ args \in [tip_gwei : CostTips, blobs : 0..MaxBlobs,
                 calldata_bytes : CostBytes, json : {FALSE}]
    /\ args.calldata_bytes <= args.blobs * BLOB_SIZE_BYTES
    /\ cost = None
    /\ src = "sizes"
    /\ raw = << >>
    /\ sizes = << >>
    /\ total_bytes = 0
    /\ base_fee_gwei \in CostBaseFees
    /\ blob_base_fee_gwei \in {None} \cup {Some(f) : f \in CostBlobFees}
    /\ caller = "test"
    /\ bin_cap = BLOB_SIZE_BYTES
    /\ order = << >>
    /\ k = 1
    /\ bins = << >>
    /\ remaining = << >>
    /\ result = None
    /\ err = None
    /\ printed = None
    /\ scanner = NoScan
    /\ monitor = NoProbe
    /\ memo = None

\* lines 175 and 221-230: gas_used is clamped and the costs are computed; a
\* negative effective price, or a negative blob base fee with blobs in use,
\* raises in to_wei
CostCall ==
    /\ pc = "cost_call"
    /\ gas_used' = ClampGas(gas_arg)
    /\ LET c == CostLocals(base_fee_gwei, args.tip_gwei, ClampGas(gas_arg),
                           blob_base_fee_gwei, args.blobs,
                           args.calldata_bytes)
       IN  IF \/ ToWeiRaises(c.eff_gwei)
              \/ /\ blob_base_fee_gwei # None
                 /\ args.blobs > 0
                 /\ ToWeiRaises(blob_base_fee_gwei[1])
           THEN /\ pc' = "cost_raised"
                /\ err' = Some(ToWeiError)
                /\ cost' = cost
           ELSE /\ pc' = "cost_returned"
                /\ err' = err
                /\ cost' = Some(c)
    /\ UNCHANGED << printed, scanner, monitor, gas_arg, args, src, raw, sizes, total_bytes, base_fee_gwei,
                    blob_base_fee_gwei, caller, bin_cap, order, k, bins,
                    remaining, result, memo >>

\* the caller keeps the costs and asks again for another gas_used
CostAgain ==
    /\ pc = "cost_returned"
    /\ memo = None
    /\ memo' = Some([gas_arg |-> gas_arg, blobs |-> args.blobs,
                     cost |-> cost[1]])
    /\ \E g \in CostGas : gas_arg' = g
    /\ pc' = "cost_call"
    /\ UNCHANGED << printed, scanner, monitor, gas_used, args, src, raw, sizes, total_bytes,
                    base_fee_gwei, blob_base_fee_gwei, caller, bin_cap, order,
                    k, bins, remaining, result, err, cost >>

\* the caller keeps the costs and asks again for another number of blobs
CostMoreBlobs ==
    /\ pc = "cost_returned"
    /\ memo = None
    /\ memo' = Some([gas_arg |-> gas_arg, blobs |-> args.blobs,
                     cost |-> cost[1]])
    /\ \E nb \in 0..MaxBlobs :
          /\ args.calldata_bytes <= nb * BLOB_SIZE_BYTES
          /\ args' = [args EXCEPT !.blobs = nb]
    /\ pc' = "cost_call"
    /\ UNCHANGED << printed, scanner, monitor, gas_arg, gas_used, src, raw, sizes, total_bytes,
                    base_fee_gwei, blob_base_fee_gwei, caller, bin_cap, order,
                    k, bins, remaining, result, err, cost >>

NextCost ==
    \/ CostCall
    \/ CostAgain
    \/ CostMoreBlobs

SpecCost == InitCost /\ [][NextCost]_vars

(***************************************************************************)
(* scanner.py: main() and scan(), lines 74-191.                             *)
(***************************************************************************)
\* the variables of the other scripts
plannerVars == << gas_arg, gas_used, args, src, raw, sizes, total_bytes,
                  base_fee_gwei, blob_base_fee_gwei, caller, bin_cap, order,
                  k, bins, remaining, cost, result, err, printed, memo >>

\* the defaults of --tip-gwei-th (Gwei), --eff-low and --eff-high (tenths of a
\* percent) and --fee-eth-th (thousandths of an ETH), lines 59-62
TipTh == 5
EffLow == 200
EffHigh == 995
FeeEthTh == 100

\* a transaction of a fetched block: whether its receipt can be had, its tip
\* in Gwei, its gas efficiency in tenths of a percent (<< >> for a gas limit
\* of 0) and its total fee in thousandths of an ETH
Tx(receipt, tip, eff, fee) ==
    [receipt |-> receipt, tip_gwei |-> tip, eff |-> eff, fee |-> fee]

\* lines 106-115: the flags of a transaction
Flags(tx) ==
    (IF tx.tip_gwei >= TipTh THEN << "high_tip" >> ELSE << >>)
    \o (IF tx.eff # None /\ tx.eff[1] <= EffLow THEN << "low_eff" >> ELSE << >>)
    \o (IF tx.eff # None /\ tx.eff[1] >= EffHigh THEN << "high_eff" >> ELSE << >>)
    \o (IF tx.fee >= FeeEthTh THEN << "high_total_fee" >> ELSE << >>)

\* lines 155-160 of main, connect() of lines 41-52 and lines 77-80 of scan:
\* the arguments are checked (--blocks and --step only) and the node is
\* connected to, each with sys.exit(1) on failure (lines 158 and 45); then
\* head and start are set
ScStart(ReportArgs, Heads, BlockCounts, StepArgs) ==
    /\ pc = "sc_start"
    /\ \E mr \in ReportArgs, head \in Heads, nblocks \in BlockCounts,
          step \in StepArgs, up \in BOOLEAN :
          IF nblocks <= 0 \/ step <= 0 \/ ~up
          THEN /\ pc' = "sc_failed"
               /\ scanner' = [scanner EXCEPT !.max_report = mr, !.step = step]
          ELSE /\ pc' = "sc_for"
               /\ scanner' = [max_report |-> mr, head |-> head,
                              start |-> Max(0, head - nblocks + 1),
                              step |-> step, n |-> head, txs |-> << >>,
                              ti |-> 1, outliers |-> << >>, scanned |-> 0]
    /\ UNCHANGED << monitor, plannerVars >>

\* lines 82-85: the next block of range(head, start - 1, -step) is fetched
\* with its transactions, or the loop is over
ScFor(TxLists) ==
    /\ pc = "sc_for"
    /\ IF scanner.n >= scanner.start
       THEN /\ \E txs \in TxLists :
                  scanner' = [scanner EXCEPT !.txs = txs, !.ti = 1]
            /\ pc' = "sc_tx"
       ELSE /\ pc' = "sc_return"
            /\ scanner' = scanner
    /\ UNCHANGED << monitor, plannerVars >>

\* lines 133 and 136: the test of the cap
CapReached(found, max_report) == Len(found) >= max_report

\* lines 88-134: one iteration of the loop over the transactions of the
\* block: a transaction without receipt is passed over, one with flags is
\* appended to outliers, and the loop is left when the cap is reached
ScTx ==
    /\ pc = "sc_tx"
    /\ IF scanner.ti > Len(scanner.txs)
       THEN /\ pc' = "sc_block_end"
            /\ scanner' = scanner
       ELSE LET tx == scanner.txs[scanner.ti]
                found == IF tx.receipt /\ Flags(tx) # << >>
                         THEN Append(scanner.outliers,
                                     [block |-> scanner.n,
                                      flags |-> Flags(tx)])
                         ELSE scanner.outliers
            IN  /\ scanner' = [scanner EXCEPT !.outliers = found,
                                              !.ti = @ + 1]
                /\ pc' = IF /\ found # scanner.outliers
                            /\ CapReached(found, scanner.max_report)
                         THEN "sc_block_end"
                         ELSE "sc_tx"
    /\ UNCHANGED << monitor, plannerVars >>

\* lines 135-137: the block is counted, and the loop over the blocks is left
\* when the cap is reached
ScBlockEnd ==
    /\ pc = "sc_block_end"
    /\ scanner' = [scanner EXCEPT !.scanned = @ + 1,
                                  !.n = @ - scanner.step]
    /\ pc' = IF CapReached(scanner.outliers, scanner.max_report)
             THEN "sc_return"
             ELSE "sc_for"
    /\ UNCHANGED << monitor, plannerVars >>

\* lines 139-152 of scan and lines 172-191 of main: the result is returned
\* and printed
ScReturn ==
    /\ pc = "sc_return"
    /\ pc' = "sc_done"
    /\ UNCHANGED << scanner, monitor, plannerVars >>

MaxTxs == 2
MaxHead == 2
ReportArgs == {-1, 0, 1, 2}
BlockCounts == {0, 1, 3}
StepArgs == {0, 1, 2}
TxValues == {Tx(FALSE, 6, Some(500), 0), Tx(TRUE, 0, Some(500), 0),
             Tx(TRUE, 6, Some(500), 0), Tx(TRUE, 0, None, 200),
             Tx(TRUE, 0, Some(1000), 0)}

InitScan ==
    /\ pc = "sc_start"
    /\ Fresh

NextScan ==
    \/ ScStart(ReportArgs, 0..MaxHead, BlockCounts, StepArgs)
    \/ ScFor(SeqsUpTo(TxValues, MaxTxs))
    \/ ScTx
    \/ ScBlockEnd
    \/ ScReturn

SpecScan == InitScan /\ [][NextScan]_vars

(***************************************************************************)
(* multi_chain_monitor.py: one RPC endpoint is probed and classified.       *)
(* The fees the node answers are whole numbers of wei; the thresholds        *)
(* --warn-ratio-high and --warn-ratio-low are given in tenths (20 is the     *)
(* argument 2.0, 9 is 0.9).  A fee in Gwei, the ratio and a threshold are    *)
(* Python floats, held here as the doubles they are: a sign and the value    *)
(* m / 2^k.                                                                  *)
(***************************************************************************)
WeiPerGwei == 1000000000

\* A whole number too large for a machine word, as BigLimbs digits to the
\* base BigBase = 2^15, the lowest at position 1.
BigLimbs == 8

BigBase == 32768

\* the digits f[1], ..., f[BigLimbs] from position i on, as a tuple
RECURSIVE LimbsOf(_, _)
LimbsOf(f, i) ==
    IF i > BigLimbs THEN << >> ELSE << f[i] >> \o LimbsOf(f, i + 1)

BigOfInt(n) ==
    LimbsOf([i \in 1..BigLimbs |->
                IF i = 1 THEN n % BigBase
                ELSE IF i = 2 THEN (n \div BigBase) % BigBase
                ELSE IF i = 3 THEN n \div (BigBase * BigBase)
                ELSE 0], 1)

\* the value of the binary digits ds[from], ds[from - 1], ... of at most
\* `count` positions, ds[from] the lowest (positions below 1 hold no digit)
RECURSIVE LimbOfDigits(_, _, _)
LimbOfDigits(ds, from, count) ==
    IF count = 0 \/ from < 1 THEN 0
    ELSE ds[from] + 2 * LimbOfDigits(ds, from - 1, count - 1)

\* the number whose binary digits, highest first, are the sequence ds
BigOfDigits(ds) ==
    LimbsOf([i \in 1..BigLimbs |->
                LimbOfDigits(ds, Len(ds) - 15 * (i - 1), 15)], 1)

\* the number of binary digits of x
BigLen(x) ==
    LET S == { i \in 1..BigLimbs : x[i] # 0 }
    IN  IF S = {} THEN 0
        ELSE LET top == CHOOSE i \in S : \A j \in S : j <= i
             IN  15 * (top - 1) + BitLen(x[top])

\* x * 2^n
BigShl(x, n) ==
    LET q == n \div 15
        f == 2 ^ (n % 15)
        at(i) == IF i >= 1 THEN x[i] ELSE 0
    IN  LimbsOf([i \in 1..BigLimbs |->
                    ((at(i - q) * f) % BigBase)
                    + ((at(i - q - 1) * f) \div BigBase)], 1)

\* 1, 0 or -1 as x is larger than, equal to or smaller than y
BigCmp(x, y) ==
    LET D == { i \in 1..BigLimbs : x[i] # y[i] }
    IN  IF D = {} THEN 0
        ELSE LET top == CHOOSE i \in D : \A j \in D : j <= i
             IN  IF x[top] > y[top] THEN 1 ELSE -1

\* x + y is AddFrom(x, y, 1, 0)
RECURSIVE AddFrom(_, _, _, _)
AddFrom(x, y, i, carry) ==
    IF i > BigLimbs THEN << >>
    ELSE << (x[i] + y[i] + carry) % BigBase >>
         \o AddFrom(x, y, i + 1, (x[i] + y[i] + carry) \div BigBase)

\* x - y, for x >= y, is SubFrom(x, y, 1, 0)
RECURSIVE SubFrom(_, _, _, _)
SubFrom(x, y, i, borrow) ==
    IF i > BigLimbs THEN << >>
    ELSE LET d == x[i] - y[i] - borrow
         IN  << d % BigBase >> \o SubFrom(x, y, i + 1, IF d < 0 THEN 1 ELSE 0)

\* the number m / 2^k of the digits s, rounded
DoubleFrom(s) ==
    [m |-> IF s.up THEN AddFrom(BigOfDigits(s.digits), BigOfInt(1), 1, 0)
           ELSE BigOfDigits(s.digits),
     k |-> s.k]

\* the double nearest to num / den (num >= 0, 0 < den <= 2^30), as the pair
\* m, k of its value m / 2^k
DoubleOf(num, den) == DoubleFrom(SigDigits(num, den))

\* SigStep for large numbers st.rem < den
QuoStep(st, den) ==
    IF st.done THEN st
    ELSE IF BigLen(st.rem) = 0 THEN [st EXCEPT !.exact = TRUE, !.done = TRUE]
    ELSE LET twice == BigShl(st.rem, 1)
             bit == IF BigCmp(twice, den) >= 0 THEN 1 ELSE 0
             rest == IF bit = 1 THEN SubFrom(twice, den, 1, 0) ELSE twice
         IN  IF st.need = 0
             THEN [st EXCEPT !.done = TRUE,
                      !.up = bit = 1 /\ (BigLen(rest) > 0
                                         \/ st.digits[Len(st.digits)] = 1)]
             ELSE IF st.started \/ bit = 1
                  THEN [st EXCEPT !.rem = rest, !.need = @ - 1, !.started = TRUE,
                           !.digits = Append(@, bit), !.k = @ + 1]
                  ELSE [st EXCEPT !.rem = rest, !.k = @ + 1]

RECURSIVE QuoRun(_, _)
QuoRun(st, den) ==
    IF st.done THEN st
    ELSE QuoRun(QuoStep(QuoStep(QuoStep(QuoStep(QuoStep(QuoStep(QuoStep(
                QuoStep(st, den), den), den), den), den), den), den), den), den)

\* the float quotient x / z of two doubles, as DoubleOf gives a double: the
\* quotient of x.m and z.m * 2^t, t chosen to make it less than 1, rounded
\* to 53 digits
FloatDiv(x, z) ==
    LET t == BigLen(x.m) - BigLen(z.m) + 1
    IN  DoubleFrom(QuoRun(SigStart(IF t < 0 THEN BigShl(x.m, -t) ELSE x.m,
                                   53, << >>, x.k - z.k - t),
                          IF t > 0 THEN BigShl(z.m, t) ELSE z.m))

\* the float nearest to num / den (0 < den <= 2^30), of either sign
FloatOf(num, den) ==
    LET x == DoubleOf(IF num < 0 THEN -num ELSE num, den)
    IN  [neg |-> num < 0, m |-> x.m, k |-> x.k]

\* 1, 0 or -1 as the float x is positive, zero or negative
FloatSign(x) == IF BigLen(x.m) = 0 THEN 0 ELSE IF x.neg THEN -1 ELSE 1

\* 1, 0 or -1 as the float x is larger than, equal to or smaller than y
FloatCmp(x, y) ==
    IF FloatSign(x) # FloatSign(y)
    THEN (IF FloatSign(x) > FloatSign(y) THEN 1 ELSE -1)
    ELSE FloatSign(x)
            * (IF x.k >= y.k THEN BigCmp(x.m, BigShl(y.m, x.k - y.k))
               ELSE BigCmp(BigShl(x.m, y.k - x.k), y.m))

\* the float x / z, z not zero
FloatRatio(x, z) ==
    IF FloatSign(x) = 0 THEN [neg |-> x.neg # z.neg, m |-> x.m, k |-> 0]
    ELSE LET q == FloatDiv(x, z)
         IN  [neg |-> x.neg # z.neg, m |-> q.m, k |-> q.k]

\* a threshold given in tenths, as the float argparse makes of it
ThresholdOf(tenths) == FloatOf(tenths, 10)

\* lines 174-175: float(wei) / 1e9 if wei is not None else None
GweiOf(wei) == IF wei = None THEN None ELSE Some(FloatOf(wei[1], WeiPerGwei))

\* lines 120-138: ratio = gas_price_gwei / base_fee_gwei is compared with
\* high and low, the base fee being positive there
classify_ratio(base_gwei, price_gwei, high, low) ==
    IF base_gwei = None \/ FloatSign(base_gwei[1]) <= 0 THEN "no_eip1559"
    ELSE IF price_gwei = None THEN "error"
    ELSE LET ratio == FloatRatio(price_gwei[1], base_gwei[1])
         IN  IF FloatCmp(ratio, ThresholdOf(high)) > 0 THEN "overpriced"
             ELSE IF FloatCmp(ratio, ThresholdOf(low)) < 0 THEN "underpriced"
             ELSE "healthy"

\* lines 177-182: the ratio of the result, None without a base fee, with a
\* base fee of 0 or without a gas price
ProbeRatio(base_gwei, price_gwei) ==
    IF base_gwei # None /\ FloatSign(base_gwei[1]) # 0 /\ price_gwei # None
    THEN Some(FloatRatio(price_gwei[1], base_gwei[1]))
    ELSE None

\* lines 150-161: the result before the node is asked
EmptyResult == [ok |-> FALSE, error |-> None, base_fee_gwei |-> None,
                gas_price_gwei |-> None, ratio |-> None, status |-> None]

\* lines 164-166: the endpoint does not answer
McConnectionFailed(Highs, Lows) ==
    /\ pc = "mc_start"
    /\ \E high \in Highs, low \in Lows :
          monitor' = [NoProbe EXCEPT
                         !.high = high, !.low = low,
                         !.result = Some([EmptyResult EXCEPT
                                    !.error = Some("connection_failed")])]
    /\ pc' = "mc_done"
    /\ UNCHANGED << scanner, plannerVars >>

\* lines 168-172 and 197-198: one of the requests to the node raises
McRaises(Highs, Lows) ==
    /\ pc = "mc_start"
    /\ \E high \in Highs, low \in Lows :
          monitor' = [NoProbe EXCEPT
                         !.high = high, !.low = low,
                         !.result = Some([EmptyResult EXCEPT
                                    !.error = Some("exception")])]
    /\ pc' = "mc_done"
    /\ UNCHANGED << scanner, plannerVars >>

\* lines 168-196: the node answers its base fee and its gas price, and the
\* chain is classified
McProbe(BaseFeeAnswers, GasPriceAnswers, Highs, Lows) ==
    /\ pc = "mc_start"
    /\ \E base_fee_wei \in BaseFeeAnswers, gas_price_wei \in GasPriceAnswers,
          high \in Highs, low \in Lows :
          LET base_gwei == GweiOf(base_fee_wei)
              price_gwei == GweiOf(gas_price_wei)
          IN  monitor' =
                [base_fee |-> base_fee_wei, gas_price |-> gas_price_wei,
                 high |-> high, low |-> low,
                 result |-> Some(
                   [ok |-> TRUE, error |-> None,
                    base_fee_gwei |-> base_gwei,
                    gas_price_gwei |-> price_gwei,
                    ratio |-> ProbeRatio(base_gwei, price_gwei),
                    status |-> Some(classify_ratio(base_gwei,
                                        price_gwei, high, low))])]
    /\ pc' = "mc_done"
    /\ UNCHANGED << scanner, plannerVars >>

\* the answers of the node in wei: none, 0, a few wei (10 and 15, whose ratio
\* 1.5 the floats miss), and whole and half numbers of Gwei
FeeAnswers == {None} \cup { Some(w) : w \in {-1000000000, 0, 10, 15,
                                               1000000000, 1500000000,
                                               2000000000} }
HighArgs == {5, 10, 20}
LowArgs == {5, 9, 15}

InitMonitor ==
    /\ pc = "mc_start"
    /\ Fresh

NextMonitor ==
    \/ McConnectionFailed(HighArgs, LowArgs)
    \/ McRaises(HighArgs, LowArgs)
    \/ McProbe(FeeAnswers, FeeAnswers, HighArgs, LowArgs)

SpecMonitor == InitMonitor /\ [][NextMonitor]_vars

(***************************************************************************)
(* SpecPack: the packer called directly, on every list of at most MaxItems  *)
(* sizes in 0 .. bin_cap, for every capacity 1 .. MaxCap.                    *)
(***************************************************************************)
PackInputs(maxCap, maxLen) ==
    { << sz, cap >> \in SeqsUpTo(0..maxCap, maxLen) \X (1..maxCap) :
          \A p \in 1..Len(sz) : sz[p] <= cap }

InitPackWith(maxCap, maxLen) ==
    /\ pc = "pack_call"
    /\ caller = "direct"
    /\ \E in \in PackInputs(maxCap, maxLen) :
          /\ sizes = in[1]
          /\ bin_cap = in[2]
    /\ gas_arg = 0
    /\ gas_used = 0
    /\ args = NoArgs
    /\ cost = None
    /\ src = "sizes"
    /\ raw = << >>
    /\ total_bytes = 0
    /\ base_fee_gwei = 0
    /\ blob_base_fee_gwei = None
    /\ order = << >>
    /\ k = 1
    /\ bins = << >>
    /\ remaining = << >>
    /\ result = None
    /\ err = None
    /\ printed = None
    /\ scanner = NoScan
    /\ monitor = NoProbe
    /\ memo = None

InitPack == InitPackWith(MaxCap, MaxItems)

NextPack ==
    \/ PackBegin
    \/ PackStep
    \/ PackReturn

SpecPack == InitPack /\ [][NextPack]_vars

\* the packer is a loop of a running program: a step that can be taken is
\* taken
SpecPackFair == SpecPack /\ WF_vars(NextPack)

(***************************************************************************)
(* SpecRepeat: the packer called again and again in one process, each call  *)
(* on an input of its own.  memo keeps one earlier call, any of them.        *)
(***************************************************************************)
\* longest list of sizes and largest capacity of a repeated call
RepItems == 2
RepCap == 2

\* the caller calls the packer once more, on any input, having kept or not the
\* call that just returned
Reinvoke ==
    /\ pc = "returned"
    /\ \E in \in PackInputs(RepCap, RepItems) :
          /\ sizes' = in[1]
          /\ bin_cap' = in[2]
    /\ memo' \in {memo, Some([sizes |-> sizes, bin_cap |-> bin_cap,
                              bins |-> bins])}
    /\ pc' = "pack_call"
    /\ UNCHANGED << caller, order, k, bins, remaining >>
    /\ UNCHANGED mainVars

InitRepeat == InitPackWith(RepCap, RepItems)

NextRepeat ==
    \/ PackBegin
    \/ PackStep
    \/ PackReturn
    \/ Reinvoke

SpecRepeat == InitRepeat /\ [][NextRepeat]_vars

(***************************************************************************)
(* Properties.                                                              *)
(***************************************************************************)
\* the packer has returned (to main or to its direct caller)
Packed ==
    \/ pc \in {"returned", "costs"}
    \/ pc = "failed" /\ err \in {Some(ToWeiError), Some(UnboundName)}

\* the planner has evaluated its cost section and the entries of the result
\* up to line 261, where the run ended
PlannerCosted ==
    /\ pc = "failed"
    /\ err = Some(UnboundName)
    /\ cost # None

\* how many times payload i occurs in the member list ms
RECURSIVE CountIn(_, _)
CountIn(ms, i) ==
    IF ms = << >> THEN 0
    ELSE (IF Head(ms) = i THEN 1 ELSE 0) + CountIn(Tail(ms), i)

\* how many times payload i occurs in all the bins bs
RECURSIVE Occurrences(_, _)
Occurrences(bs, i) ==
    IF bs = << >> THEN 0
    ELSE CountIn(Head(bs), i) + Occurrences(Tail(bs), i)

RECURSIVE MemberCount(_)
MemberCount(bs) ==
    IF bs = << >> THEN 0 ELSE Len(Head(bs)) + MemberCount(Tail(bs))

MinOf(S) == CHOOSE x \in S : \A y \in S : x <= y

\* the position of payload i in the processing order
PosInOrder(i) == CHOOSE p \in 1..Len(order) : order[p] = i

\* C1 (capacity invariant): at every step of the packer and in what it
\* returns, the sizes of the members of every bin sum to at most the capacity.
C1_CapacityInvariant ==
    \A b \in 1..Len(bins) : SumOf(sizes, bins[b]) <= bin_cap

\* the packer returned several bins, one of them filled to the brim by
\* several payloads
C1_Witness ==
    /\ pc = "returned"
    /\ Len(bins) >= 2
    /\ \E b \in 1..Len(bins) :
          Len(bins[b]) >= 2 /\ SumOf(sizes, bins[b]) = bin_cap

\* C2 (conservation): the bins the packer returns hold every input index
\* 0 .. n-1 exactly once: none is dropped, none is in two bins or twice in one.
C2_Conservation ==
    Packed =>
        /\ \A i \in 0..(Len(sizes) - 1) : Occurrences(bins, i) = 1
        /\ MemberCount(bins) = Len(sizes)

\* the packer returned three payloads spread over two bins
C2_Witness ==
    /\ pc = "returned"
    /\ Len(sizes) = 3
    /\ Len(bins) = 2
    /\ \A i \in 0..2 : Occurrences(bins, i) = 1

\* C3 (first-fit placement): a step of the packer puts the payload in the
\* lowest-numbered open bin whose remaining capacity is at least its size,
\* and opens a new bin at the end, with remaining = capacity - size, only
\* when no open bin fits.
C3_FirstFit ==
    [][ (pc = "pack_loop" /\ k' = k + 1) =>
          LET i == order[k]
              s == sizes[i + 1]
              open == { b \in 1..Len(remaining) : remaining[b] >= s }
          IN  IF open # {}
              THEN /\ bins' = [bins EXCEPT ![MinOf(open)] = Append(@, i)]
                   /\ remaining' = [remaining EXCEPT ![MinOf(open)] = @ - s]
              ELSE /\ bins' = Append(bins, << i >>)
                   /\ remaining' = Append(remaining, bin_cap - s) ]_vars

\* two bins were open with room in both, and the payload went to the first;
\* another payload fitted in neither and opened the second
C3_Witness ==
    /\ pc = "returned"
    /\ Len(bins) = 2
    /\ Len(bins[1]) = 2
    /\ PosInOrder(bins[2][1]) < PosInOrder(bins[1][2])
    /\ remaining[2] >= sizes[bins[1][2] + 1]

\* C4 (processing order and tie-break): the packer processes the payloads by
\* size descending, equal sizes by input index ascending; sizes
\* [50000, 50000, 50000] with capacity 131072 give bin 0 = [0, 1], bin 1 = [2].
C4_OrderAndTieBreak ==
    /\ (pc = "pack_loop" \/ Packed) =>
          /\ Len(order) = Len(sizes)
          /\ \A p, q \in 1..Len(order) :
                p < q =>
                   \/ sizes[order[p] + 1] > sizes[order[q] + 1]
                   \/ /\ sizes[order[p] + 1] = sizes[order[q] + 1]
                      /\ order[p] < order[q]
          \* the payloads placed so far are the first k - 1 of that order
          /\ \A p \in 1..Len(order) :
                Occurrences(bins, order[p]) = (IF p < k THEN 1 ELSE 0)
    /\ (Packed /\ sizes = << 50000, 50000, 50000 >>
            /\ bin_cap = BLOB_SIZE_BYTES) =>
          bins = << << 0, 1 >>, << 2 >> >>

\* the run on [50000, 50000, 50000] ended with two bins
C4_Witness ==
    /\ PlannerCosted
    /\ sizes = << 50000, 50000, 50000 >>
    /\ Len(bins) = 2

\* C5 (output ordering): bins are returned in the order they were opened and
\* every member list is in placement order, the entries main builds for
\* them list them so; sizes [64000, 90000] give bin 0 = [1], bin 1 = [0] and
\* total bytes 154000.
C5_OutputOrdering ==
    /\ (pc = "pack_loop" \/ Packed) =>
          /\ \A b \in 1..Len(bins) :
                \A p, q \in 1..Len(bins[b]) :
                   p < q => PosInOrder(bins[b][p]) < PosInOrder(bins[b][q])
          /\ \A b, c \in 1..Len(bins) :
                b < c => PosInOrder(bins[b][1]) < PosInOrder(bins[c][1])
    /\ PlannerCosted =>
          /\ Len(cost[1].binEntries) = Len(bins)
          /\ \A b \in 1..Len(bins) :
                /\ cost[1].binEntries[b].blobIndex = b - 1
                /\ cost[1].binEntries[b].payloadIndices = bins[b]
    /\ (PlannerCosted /\ sizes = << 64000, 90000 >>) =>
          /\ bins = << << 1 >>, << 0 >> >>
          /\ Len(cost[1].binEntries) = 2
          /\ cost[1].binEntries[1].payloadIndices = << 1 >>
          /\ cost[1].binEntries[1].payloadBytes = 90000
          /\ cost[1].binEntries[2].payloadIndices = << 0 >>
          /\ cost[1].binEntries[2].payloadBytes = 64000
          /\ total_bytes = 154000

\* the run on [64000, 90000] built the entries of two bins
C5_Witness ==
    /\ PlannerCosted
    /\ sizes = << 64000, 90000 >>
    /\ Len(cost[1].binEntries) = 2

\* C6 (determinism, statelessness): a call of the packer returns the same
\* bins as any earlier call on the same sizes and capacity, whatever calls
\* came in between.
C6_Deterministic ==
    (pc = "returned" /\ memo # None /\ memo[1].sizes = sizes
        /\ memo[1].bin_cap = bin_cap) =>
       bins = memo[1].bins

\* a call returned on the input of a kept earlier call, which left two bins
C6_Witness ==
    /\ pc = "returned"
    /\ memo # None
    /\ memo[1].sizes = sizes
    /\ memo[1].bin_cap = bin_cap
    /\ Len(sizes) = 2
    /\ Len(bins) = 2

\* C7 (reject oversize before packing): once the sizes read hold a payload
\* larger than the capacity, the run fails at the check with the "exceeds
\* capacity" error, no bin is ever opened and no result is produced.
C7_RejectOversize ==
    (\E p \in 1..Len(sizes) : sizes[p] > BLOB_SIZE_BYTES) =>
       /\ pc \in {"validate", "failed"}
       /\ pc = "failed" => err = Some(OversizeError)
       /\ bins = << >>
       /\ remaining = << >>
       /\ result = None
       /\ cost = None

\* the run failed on a list holding 131073 or 180000
C7_Witness ==
    /\ pc = "failed"
    /\ err = Some(OversizeError)
    /\ \E p \in 1..Len(sizes) : sizes[p] \in {131073, 180000}

\* C8 (the oversize error identifies the payload): the error of a run that
\* failed on a payload larger than the capacity carries the index and the
\* size of such a payload.
C8_OversizeErrorNamesPayload ==
    (pc = "failed" /\ \E p \in 1..Len(sizes) : sizes[p] > BLOB_SIZE_BYTES) =>
       /\ err # None
       /\ err[1].index # None
       /\ err[1].size # None
       /\ err[1].index[1] \in 0..(Len(sizes) - 1)
       /\ sizes[err[1].index[1] + 1] = err[1].size[1]
       /\ err[1].size[1] > BLOB_SIZE_BYTES

\* the sizes were read and no payload was among them: every token of a
\* non-empty --sizes string, every line of the file, is blank
ZeroPayloads ==
    /\ pc \notin {"start", "read_sizes"}
    /\ src = "file" \/ (src = "sizes" /\ raw # << >>)
    /\ \A p \in 1..Len(raw) : raw[p].kind = "blank"

\* C9 (empty input is valid): with zero payloads the run raises no error of
\* its own, and when it ends it reports no bins, zero bytes and a zero
\* calldata cost.
C9_EmptyInputValid ==
    ZeroPayloads =>
       /\ ~(err # None /\ err[1].exc \in {"ValueError", "TypeError"})
       /\ Packed =>
             /\ bins = << >>
             /\ total_bytes = 0
       /\ cost # None =>
             /\ cost[1].binEntries = << >>
             /\ cost[1].calldata = 0

HasNegative(toks) ==
    \E p \in 1..Len(toks) : toks[p].kind = "int" /\ toks[p].n < 0

\* C10 (a negative size is fatal): when the tokens of --sizes or the lines of
\* the file hold a negative number the run fails while reading them: no
\* list of sizes, so no size coerced to 0, no bin and no result.
C10_NegativeSizeFatal ==
    HasNegative(raw) =>
       /\ pc = "failed"
       /\ err \in {Some(NegativeSizeError), Some(IntParseError)}
       /\ sizes = << >>
       /\ bins = << >>
       /\ result = None
       /\ cost = None

\* a run failed on a negative number that came behind a valid size
C10_Witness ==
    /\ pc = "failed"
    /\ err = Some(NegativeSizeError)
    /\ Len(raw) >= 2
    /\ raw[1].kind = "int"
    /\ raw[1].n > 0
    /\ HasNegative(raw)

(***************************************************************************)
(* The cost section: blob_packing_planner.py and eip4844_blob_cost.py.      *)
(***************************************************************************)
\* a run of eip4844_blob_cost.py has read the base fee and ended at line 122
BcEnded ==
    /\ pc = "bc_failed"
    /\ err = Some(UnboundLocal)

\* a run of eip4844_blob_cost.py is past the clamps of lines 108-109 with
\* the node reached at line 111 or not yet asked
BcClamped == pc = "bc_reconnect" \/ BcEnded

\* C11 (blob cost): in the planner and in eip4844_blob_cost.py the blob cost
\* is defined exactly when a blob base fee is present and the number of
\* blobs is > 0, and is then to_wei(fee) x blobs x 131072 whatever the blobs
\* hold; the planner's entry of costsETH is its rounding to 8 decimals.  A
\* run of eip4844_blob_cost.py that has read the base fee has such a cost.
C11_BlobCost ==
    /\ PlannerCosted =>
          /\ cost[1].blob # None <=>
                (blob_base_fee_gwei # None /\ Len(bins) > 0)
          /\ cost[1].blob # None =>
                cost[1].blob =
                   Some(ToWei(blob_base_fee_gwei[1]) * Len(bins) * 131072)
          /\ cost[1].costsETH.blobs =
                IF cost[1].blob # None THEN Some(Round8(cost[1].blob[1]))
                ELSE None
    /\ BcEnded =>
          /\ cost # None
          /\ cost[1].blob # None <=>
                (blob_base_fee_gwei # None /\ args.blobs > 0)
          /\ cost[1].blob # None =>
                cost[1].blob =
                   Some(ToWei(blob_base_fee_gwei[1]) * args.blobs * 131072)

\* C12 (execution cost): in the planner and in eip4844_blob_cost.py, for
\* gas_used >= 0 the execution cost is to_wei(base fee + tip) x gas_used at
\* every fee snapshot; the planner's entry of costsETH is its rounding to 8
\* decimals.  A run of eip4844_blob_cost.py that has read the base fee, with
\* a tip >= 0, has such a cost.
C12_ExecCost ==
    /\ (PlannerCosted /\ gas_arg >= 0) =>
          /\ cost[1].eff_gwei = EffGwei(base_fee_gwei, cost[1].tip)
          /\ cost[1].exec =
                ToWei(EffGwei(base_fee_gwei, cost[1].tip)) * gas_arg
          /\ cost[1].costsETH.execution =
                Round8(ToWei(EffGwei(base_fee_gwei, cost[1].tip)) * gas_arg)
    /\ (BcEnded /\ gas_arg >= 0 /\ args.tip_gwei[1] >= 0) =>
          /\ cost # None
          /\ cost[1].exec =
                ToWei(EffGwei(base_fee_gwei, args.tip_gwei)) * gas_arg

\* C13 (calldata cost): in the planner and in eip4844_blob_cost.py a run
\* that has its base fee computes the calldata cost, (base fee + tip) x
\* (bytes x 16), with or without a blob base fee and also for zero bytes.
C13_CalldataAlwaysComputed ==
    /\ PlannerCosted =>
          cost[1].calldata =
             ToWei(EffGwei(base_fee_gwei, cost[1].tip)) * (SumSeq(sizes) * 16)
    /\ (BcEnded /\ args.tip_gwei[1] >= 0) =>
          /\ cost # None
          /\ cost[1].calldata =
                ToWei(EffGwei(base_fee_gwei, args.tip_gwei))
                   * (args.calldata_bytes * 16)

\* C14 (a missing blob fee degrades): a run of the planner that uses blobs
\* and has no blob base fee is not aborted: it gives a result whose blob cost
\* is null, whose notes hold the advisory on the blob base fee, and whose
\* execution and calldata costs have their usual values.
C14_MissingBlobFeeDegrades ==
    (Len(bins) > 0 /\ blob_base_fee_gwei = None) =>
       /\ pc = "failed" => err = Some(ToWeiError)
       /\ cost # None =>
             /\ cost[1].blob = None
             /\ cost[1].exec = ToWei(cost[1].eff_gwei) * gas_used
             /\ cost[1].calldata = ToWei(cost[1].eff_gwei) * (total_bytes * 16)
             /\ result # None
             /\ \E n \in 1..Len(result[1].notes) :
                   result[1].notes[n].about = "blob base fee"

(***************************************************************************)
(* Utilization.                                                             *)
(***************************************************************************)
\* the cost section has returned to a caller that called it directly
CostReturned == pc = "cost_returned"

\* u / 10^4 is total / (count x 131072) rounded to 4 decimals: they differ by
\* at most half of 10^-4 (both sides scaled by count x 8192 x 10^4)
IsRounded4(u, total, count) ==
    LET d == u * (count * 8192) - total * 625
    IN  2 * (IF d < 0 THEN -d ELSE d) <= count * 8192

\* C15 (average utilization): the result of the planner holds
\* avgBlobUtilization, total_bytes / (blob_count x 131072) rounded to 4
\* decimals when blob_count > 0 and null when it is 0; it is 0.5874 for the
\* sizes [64000, 90000].
C15_Utilization5874 ==
    PlannerCosted =>
       /\ result # None
       /\ Len(bins) = 0 => result[1].totals.avgBlobUtilization = None
       /\ Len(bins) > 0 =>
             /\ result[1].totals.avgBlobUtilization # None
             /\ IsRounded4(result[1].totals.avgBlobUtilization[1],
                           total_bytes, Len(bins))
       /\ sizes = << 64000, 90000 >> =>
             result[1].totals.avgBlobUtilization = Some(5874)

\* C16 (utilization bound): the avgBlobUtilization of a non-empty packing
\* lies in 0 .. 1, and is 1 when the payloads fill every bin: two payloads of
\* 65536 bytes give one bin and a utilization of 1.
C16_UtilizationBound ==
    (PlannerCosted /\ Len(bins) > 0) =>
       /\ total_bytes <= Len(bins) * 131072
       /\ sizes = << 65536, 65536 >> => Len(bins) = 1
       /\ result # None
       /\ 0 <= result[1].totals.avgBlobUtilization[1]
       /\ result[1].totals.avgBlobUtilization[1] <= 10000
       /\ total_bytes = Len(bins) * 131072 =>
             result[1].totals.avgBlobUtilization = Some(10000)

(***************************************************************************)
(* Negative gas_used, negative tip, monotonicity.                           *)
(***************************************************************************)
\* the run is one of blob_packing_planner.py, past line 175
PlannerClamped ==
    pc \in {"read_sizes", "validate", "summary", "connect", "middleware",
            "blob_fee", "pack_call", "pack_loop", "costs", "failed"}

\* C17 (negative gas_used is clamped): in the planner and in
\* eip4844_blob_cost.py a gas_used < 0 becomes 0 and the run completes as it
\* does for gas_used = 0: it gives a result, whose execution cost is 0.
C17_NegativeGasClamped ==
    gas_arg < 0 =>
       /\ (PlannerClamped \/ BcClamped) => gas_used = 0
       /\ PlannerCosted =>
             /\ cost[1].exec = 0
             /\ cost[1].costsETH.execution = 0
       /\ (PlannerCosted \/ BcEnded) => result # None

\* C18 (negative gas-used): a gas_used < 0 is a fatal validation error: the
\* run is rejected as soon as the arguments are parsed, and no cost and no
\* result is produced.
C18_NegativeGasFatal ==
    gas_arg < 0 =>
       /\ pc \in {"failed", "bc_failed", "ge_failed"}
       /\ cost = None
       /\ result = None
       /\ printed = None

\* C19 (a negative tip is rejected): no run computes an execution or a
\* calldata cost from a tip < 0.
C19_NegativeTipRejected ==
    cost # None => cost[1].tip[1] >= 0

\* the first evaluation of the cost section, and the gas_used given to it
First == memo[1]

\* the cost section was evaluated twice, the second time on a larger gas_used
GasRaised ==
    /\ CostReturned
    /\ memo # None
    /\ First.gas_arg < gas_arg

\* C20 as the specification has it: with the fee snapshot held, a larger
\* gas_used gives a strictly larger execution cost.
C20_ExecCostStrict ==
    GasRaised => First.cost.exec < cost[1].exec

\* C20 (execution-cost monotonicity), amended: with the fee snapshot held, a
\* larger gas_used never gives a smaller execution cost, before or after the
\* rounding to 8 decimals; the cost in wei is strictly larger when the
\* effective price converts to at least one wei and the smaller gas_used is
\* >= 0, and is 0 both times when the effective price converts to 0 wei
\* (it is 0, or positive and below one wei) or the larger gas_used is <= 0.
C20_ExecCostMonotone ==
    GasRaised =>
       /\ First.cost.eff_gwei = cost[1].eff_gwei
       /\ cost[1].eff_gwei[1] >= 0
       /\ First.cost.exec <= cost[1].exec
       /\ Round8(First.cost.exec) <= Round8(cost[1].exec)
       /\ (cost[1].eff_gwei[1] >= 1 /\ First.gas_arg >= 0) =>
             First.cost.exec < cost[1].exec
       /\ (cost[1].eff_gwei[1] = 0 \/ gas_arg <= 0) =>
             /\ First.cost.exec = 0
             /\ cost[1].exec = 0

\* gas_used 1 and then 4 at a base fee of 1 Gwei and a tip of 10^-10 Gwei:
\* the tip is cut off, the cost grows from 1 to 4 Gwei, and is 0 ETH both
\* times once rounded
C20_Witness ==
    /\ GasRaised
    /\ First.gas_arg = 1
    /\ gas_arg = 4
    /\ base_fee_gwei = 1
    /\ args.tip_gwei = SubWei
    /\ cost[1].eff_gwei = << 1, 1 >>
    /\ First.cost.exec = 1
    /\ cost[1].exec = 4
    /\ Round8(First.cost.exec) = Round8(cost[1].exec)

\* the cost section was evaluated twice, the second time on more blobs, both
\* times on at least one and with a blob base fee
BlobsRaised ==
    /\ CostReturned
    /\ memo # None
    /\ blob_base_fee_gwei # None
    /\ 0 < First.blobs
    /\ First.blobs < args.blobs

\* C21 as the specification has it: with a blob base fee held, more blobs
\* give a strictly larger blob cost.
C21_BlobCostStrict ==
    BlobsRaised => First.cost.blob[1] < cost[1].blob[1]

\* C21 (blob-cost monotonicity), amended: with a blob base fee >= 0 held
\* (to_wei raises on a negative one and no cost is computed), more blobs
\* never give a smaller blob cost, before or after the rounding to 8
\* decimals; the cost in wei is strictly larger when the fee converts to at
\* least one wei, and 0 both times when the fee converts to 0 wei (it is 0,
\* or positive and below one wei).
C21_BlobCostMonotone ==
    BlobsRaised =>
       /\ blob_base_fee_gwei[1][1] >= 0
       /\ First.cost.blob # None
       /\ cost[1].blob # None
       /\ First.cost.blob[1] <= cost[1].blob[1]
       /\ Round8(First.cost.blob[1]) <= Round8(cost[1].blob[1])
       /\ blob_base_fee_gwei[1][1] >= 1 =>
             First.cost.blob[1] < cost[1].blob[1]
       /\ blob_base_fee_gwei[1][1] = 0 =>
             /\ First.cost.blob[1] = 0
             /\ cost[1].blob[1] = 0

\* one blob and then two at 1 Gwei
C21_Witness ==
    /\ BlobsRaised
    /\ blob_base_fee_gwei = Some(Gwei(1))
    /\ First.blobs = 1
    /\ args.blobs = 2
    /\ First.cost.blob = Some(131072)
    /\ cost[1].blob = Some(262144)

(***************************************************************************)
(* The blob-to-calldata ratio and the rounding of the figures.              *)
(***************************************************************************)
\* a / b = c / d for a, c >= 0 and b, d > 0, by the continued fractions of the
\* two sides (no product of two costs is formed)
RECURSIVE FracEq(_, _, _, _)
FracEq(a, b, c, d) ==
    IF a \div b # c \div d THEN FALSE
    ELSE IF a % b = 0 \/ c % d = 0 THEN a % b = 0 /\ c % d = 0
    ELSE FracEq(b, a % b, d, c % d)

\* s / 10^3 is a / b rounded to 3 decimals
IsRounded3(s, a, b) ==
    LET d == s * b - 1000 * a
    IN  2 * (IF d < 0 THEN -d ELSE d) <= b

\* C22 (blob-to-calldata ratio): the output of the planner reports the ratio
\* exactly when the blob cost is defined and the calldata cost is > 0, and
\* the ratio reported is that of the costs as computed, before any rounding.
C22_RatioOfUnroundedCosts ==
    PlannerCosted =>
       /\ printed # None
       /\ printed[1].ratio # None <=>
             (cost[1].blob # None /\ cost[1].calldata > 0)
       /\ printed[1].ratio # None =>
             FracEq(printed[1].ratio[1][1], printed[1].ratio[1][2],
                    cost[1].blob[1], cost[1].calldata)

\* C23 (rounding only at presentation): every figure of the planner's output
\* is the rounding of a value computed from unrounded values: the effective
\* price, the three costs (8 decimals), and the ratio shown (3 decimals) is
\* the rounding of the ratio of the unrounded costs.
C23_RoundedOnce ==
    PlannerCosted =>
       /\ cost[1].eff_gwei = EffGwei(base_fee_gwei, cost[1].tip)
       /\ cost[1].costsETH.execution =
             Round8(ToWei(EffGwei(base_fee_gwei, cost[1].tip)) * gas_used)
       /\ cost[1].costsETH.calldata =
             Round8(ToWei(EffGwei(base_fee_gwei, cost[1].tip))
                       * (total_bytes * 16))
       /\ cost[1].costsETH.blobs # None =>
             cost[1].costsETH.blobs =
                Some(Round8(ToWei(blob_base_fee_gwei[1]) * Len(bins) * 131072))
       /\ printed # None
       /\ printed[1].ratioShown # None =>
             IsRounded3(printed[1].ratioShown[1],
                        ToWei(blob_base_fee_gwei[1]) * Len(bins) * 131072,
                        ToWei(EffGwei(base_fee_gwei, cost[1].tip))
                           * (total_bytes * 16))

(***************************************************************************)
(* The packer: payloads of full size, accounting, termination, density and  *)
(* the number of bins.                                                      *)
(***************************************************************************)
\* payload i is a member of the bin at position b
InBin(i, b) == \E m \in 1..Len(bins[b]) : bins[b][m] = i

\* C24 as the specification has it: a payload of exactly the capacity is the
\* only member of its bin in what the packer returns.
C24_FullPayloadAlone ==
    Packed =>
       \A b \in 1..Len(bins) : \A i \in 0..(Len(sizes) - 1) :
          (InBin(i, b) /\ sizes[i + 1] = bin_cap) => bins[b] = << i >>

\* C24 (a payload of exactly the capacity), amended: such a payload always
\* opens its own bin (it is the first member of its bin) and shares it with
\* no payload of positive size; payloads of size 0 may be placed in it, since
\* 0 <= remaining holds for a full bin.
C24_FullPayloadOpensBin ==
    Packed =>
       \A b \in 1..Len(bins) : \A i \in 0..(Len(sizes) - 1) :
          (InBin(i, b) /\ sizes[i + 1] = bin_cap) =>
             /\ bins[b][1] = i
             /\ \A m \in 2..Len(bins[b]) : sizes[bins[b][m] + 1] = 0

\* the packer returned a bin that a payload of the capacity shares with a
\* payload of size 0
C24_Witness ==
    /\ pc = "returned"
    /\ \E b \in 1..Len(bins) :
          /\ Len(bins[b]) = 2
          /\ sizes[bins[b][1] + 1] = bin_cap
          /\ sizes[bins[b][2] + 1] = 0

\* C25 (bin accounting): at every step of the packer and in what it returns
\* there are as many remaining-capacity entries as bins, and the entry of a
\* bin is the capacity less the sizes of its members; in the entries that
\* main builds for the bins payloadBytes is the sum of the member sizes,
\* freeBytes the remaining capacity, and the two add up to the capacity.
C25_BinAccounting ==
    /\ Len(remaining) = Len(bins)
    /\ \A b \in 1..Len(bins) :
          remaining[b] = bin_cap - SumOf(sizes, bins[b])
    /\ PlannerCosted =>
          /\ Len(cost[1].binEntries) = Len(bins)
          /\ \A b \in 1..Len(bins) :
                /\ cost[1].binEntries[b].payloadIndices = bins[b]
                /\ cost[1].binEntries[b].payloadBytes = SumOf(sizes, bins[b])
                /\ cost[1].binEntries[b].freeBytes = remaining[b]
                /\ cost[1].binEntries[b].payloadBytes
                      + cost[1].binEntries[b].freeBytes = 131072

\* main built the entries of two bins, the first with two members and free
\* bytes left
C25_Witness ==
    /\ PlannerCosted
    /\ Len(bins) = 2
    /\ Len(bins[1]) = 2
    /\ remaining[1] > 0
    /\ cost[1].binEntries[1].payloadBytes = SumOf(sizes, bins[1])
    /\ cost[1].binEntries[1].freeBytes = remaining[1]

\* a step of the outer loop takes the next payload of `order`, and either
\* appends it to one open bin or opens one new bin that holds it alone
OneStep ==
    (pc = "pack_loop" /\ k' # k) =>
       /\ k' = k + 1
       /\ k <= Len(sizes)
       /\ order' = order
       /\ MemberCount(bins') = MemberCount(bins) + 1
       /\ \/ /\ Len(bins') = Len(bins)
             /\ \E b \in 1..Len(bins) :
                   bins' = [bins EXCEPT ![b] = Append(@, order[k])]
          \/ bins' = Append(bins, << order[k] >>)

\* the packer has returned after exactly n steps
ReturnedAfterN ==
    /\ pc = "returned"
    /\ k = Len(sizes) + 1
    /\ MemberCount(bins) = Len(sizes)

\* C26 (termination in one pass): the packer returns on every input, after
\* one step for each of its n payloads, each step placing the payload in an
\* open bin or opening exactly one new bin.
C26_OnePass ==
    /\ [][OneStep]_vars
    /\ [](pc = "returned" => ReturnedAfterN)
    /\ <>ReturnedAfterN

\* the packer returned after 3 steps, two of which opened a bin
C26_Witness ==
    /\ ReturnedAfterN
    /\ Len(sizes) = 3
    /\ k = 4
    /\ Len(bins) = 2

(***************************************************************************)
(* scanner.py: the cap on the outliers.                                     *)
(***************************************************************************)
\* scan() is running or has returned
Scanning == pc \in {"sc_for", "sc_tx", "sc_block_end", "sc_return", "sc_done"}

\* C27 (outlier scan cap): for every --max-report >= 0 the list of outliers never
\* holds more than max_report entries, and once an outlier has brought it to
\* max_report entries no further transaction is looked at and no further
\* block is fetched.
C27_OutlierCap ==
    (Scanning /\ scanner.max_report >= 0) =>
       /\ Len(scanner.outliers) <= scanner.max_report
       /\ (scanner.outliers # << >> /\ pc = "sc_for") =>
             Len(scanner.outliers) < scanner.max_report
       /\ (scanner.outliers # << >> /\ pc = "sc_tx"
             /\ scanner.ti <= Len(scanner.txs)) =>
             Len(scanner.outliers) < scanner.max_report

(***************************************************************************)
(* multi_chain_monitor.py: the classification of a chain.                   *)
(***************************************************************************)
\* probe_rpc returned a result with ok = True
Probed == pc = "mc_done" /\ monitor.result # None /\ monitor.result[1].ok

\* a * n for a machine word a and a small n >= 0, as the pair of its digits
\* to the base 2^15 (the product itself may not fit a machine word)
TimesWord(a, n) ==
    << (a \div 32768) * n + ((a % 32768) * n) \div 32768,
       ((a % 32768) * n) % 32768 >>

\* a * m > b * n
TimesGreater(a, m, b, n) ==
    LET x == TimesWord(a, m)
        y == TimesWord(b, n)
    IN  x[1] > y[1] \/ (x[1] = y[1] /\ x[2] > y[2])

\* C28 (chain classification): every successfully probed chain has exactly
\* one of the statuses healthy, overpriced, underpriced and no_eip1559:
\* no_eip1559 when the base fee is absent or <= 0, otherwise overpriced when
\* gas price / base fee > high, underpriced when it is < low, and healthy
\* otherwise (the fees in wei as the node answered them, the thresholds in
\* tenths).
C28_FourClasses ==
    Probed =>
       LET r == monitor.result[1]
           b == monitor.base_fee
           g == monitor.gas_price
       IN  /\ r.status \in { Some(c) : c \in {"healthy", "overpriced",
                                               "underpriced", "no_eip1559"} }
           /\ r.status = Some("no_eip1559") <=> (b = None \/ b[1] <= 0)
           /\ (b # None /\ b[1] > 0 /\ g # None) =>
                 /\ r.status = Some("overpriced") <=>
                       TimesGreater(g[1], 10, b[1], monitor.high)
                 /\ r.status = Some("underpriced") <=>
                       (/\ ~TimesGreater(g[1], 10, b[1], monitor.high)
                        /\ TimesGreater(b[1], monitor.low, g[1], 10))

(***************************************************************************)
(* first_fit_decreasing_binpack: density and the number of bins.            *)
(***************************************************************************)
\* the bytes placed in bin b
usedBytes(b) == SumOf(sizes, bins[b])

\* C29 (first-fit density): at every step of the packer and in what it
\* returns, for every two bins i < j the bytes in bin i and the size of the
\* first member of bin j, hence the bytes in bin i and the bytes in bin j,
\* exceed the capacity; so at most one bin is at most half full.
C29_FirstFitDensity ==
    /\ \A i \in 1..Len(bins) : \A j \in (i + 1)..Len(bins) :
          /\ usedBytes(i) + sizes[bins[j][1] + 1] > bin_cap
          /\ usedBytes(i) + usedBytes(j) > bin_cap
    /\ Cardinality({ b \in 1..Len(bins) : 2 * usedBytes(b) <= bin_cap }) <= 1

\* the packer returned two bins, the first with two members and the second
\* at most half full, whose first member did not fit the first bin
C29_Witness ==
    /\ pc = "returned"
    /\ Len(bins) = 2
    /\ Len(bins[1]) = 2
    /\ 2 * usedBytes(2) <= bin_cap
    /\ usedBytes(1) + sizes[bins[2][1] + 1] > bin_cap

\* ceil(t / cap) for t >= 0 and cap > 0
CeilDiv(t, cap) == (t + cap - 1) \div cap

\* C30 (blob-count bounds): for n payloads of T bytes in total the packer
\* returns b bins with ceil(T / capacity) <= b <= n, none of them empty, and
\* b = 0 exactly when n = 0; payloads that are all of size 0 take one bin.
C30_BlobCountBounds ==
    Packed =>
       LET n == Len(sizes)
           T == SumSeq(sizes)
           b == Len(bins)
       IN  /\ CeilDiv(T, bin_cap) <= b
           /\ b <= n
           /\ \A x \in 1..b : bins[x] # << >>
           /\ b = 0 <=> n = 0
           /\ (n > 0 /\ T = 0) => b = 1

\* the packer returned two bins for three payloads, one of them of size 0,
\* whose total needs two bins
C30_Witness ==
    /\ pc = "returned"
    /\ Len(sizes) = 3
    /\ \E i \in 1..3 : sizes[i] = 0
    /\ Len(bins) = 2
    /\ CeilDiv(SumSeq(sizes), bin_cap) = 2

====
